---- MODULE Spec2Model ----
(***************************************************************************)
(* A model of spideroak-scripts: the SpiderOak changelog parser            *)
(* (src/spideroak.py) and the "last non-zero size" query (src/main.py).    *)
(*                                                                         *)
(* Text is modelled character by character: a Python str is a sequence of  *)
(* one-character strings.  The regular expression of ChangelogEntry.regex  *)
(* is kept as data (a sequence of items) and interpreted by a backtracking *)
(* matcher with Python's greedy priority, so that quoting, anchoring and   *)
(* the type conversions of ChangelogEntry.__init__ are computed, not       *)
(* assumed.                                                                *)
(***************************************************************************)
EXTENDS Integers, Sequences, FiniteSets, TLC

VARIABLES
    journal,    \* the changes SpiderOak has on record for the folder, oldest first
    tail,       \* the lines SpiderOak prints after the last complete triplet
    filename,   \* the argument of last_nonzero
    output,     \* the text "SpiderOak --journal-changelog" prints
    pc,         \* where the call of last_nonzero is
    directory,  \* file_changelog's local
    name,       \* file_changelog's local
    entries,    \* what journal_changelog returned
    log,        \* what file_changelog returned
    result,     \* what last_nonzero returned: <<e>>, or <<>> for None
    exc         \* the exception that left last_nonzero: <<e>>, or <<>>

vars == <<journal, tail, filename, output, pc, directory, name, entries, log,
          result, exc>>

----------------------------------------------------------------------------
(* Characters and the character classes of Python's re module.             *)

Upper == <<"A","B","C","D","E","F","G","H","I","J","K","L","M",
           "N","O","P","Q","R","S","T","U","V","W","X","Y","Z">>

Lower == <<"a","b","c","d","e","f","g","h","i","j","k","l","m",
           "n","o","p","q","r","s","t","u","v","w","x","y","z">>

Digits == <<"0","1","2","3","4","5","6","7","8","9">>

Range(f) == {f[i] : i \in DOMAIN f}

\* The least element of a set of numbers.
Least(S) == CHOOSE i \in S : \A j \in S : i <= j

\* The greatest element of a set of numbers.
Greatest(S) == CHOOSE i \in S : \A j \in S : j <= i

\* [a-zA-Z]
Alpha == Range(Upper) \cup Range(Lower)

\* \d
Digit == Range(Digits)

\* \s (the newline is whitespace too)
Space == {" ", "\t", "\n"}

\* Letters outside ASCII that occur in the modelled file names.
NonAscii == {"é"}

\* \w (Unicode-aware on str patterns)
Word == Alpha \cup Digit \cup {"_"} \cup NonAscii

Punct == {":", ".", "'", "\"", "/", "-"}

\* The alphabet of the model.
Chars == Word \cup Space \cup Punct

\* . (everything but the newline; no DOTALL flag is given)
Dot == Chars \ {"\n"}

----------------------------------------------------------------------------
(* Regular expressions as data: a pattern is a sequence of items, an item  *)
(* a literal, a repeated character class, a named group or a backreference.*)

Lit(str) == [op |-> "lit", str |-> str]

\* cls{least,most}, greedy; most = -1 stands for no upper limit
Repeat(cls, least, most) ==
    [op |-> "repeat", cls |-> cls, least |-> least, most |-> most]

One(cls) == Repeat(cls, 1, 1)

Plus(cls) == Repeat(cls, 1, -1)

Star(cls) == Repeat(cls, 0, -1)

Rep(cls, n) == Repeat(cls, n, n)

\* (?P<g>...)
Group(g, items) == [op |-> "group", g |-> g, items |-> items]

\* (?P=g)
Backref(g) == [op |-> "backref", g |-> g]

GroupNames == {"time", "action", "q", "target", "type", "mode", "uid", "gid",
               "size", "mtime", "ctime", "a", "b", "d", "H", "M", "S", "Y"}

\* A configuration of the matcher: the position reached and, per group, the
\* span <<from, to>> it captured (the text from .. to-1).
StartConf == [pos |-> 1, caps |-> [g \in GroupNames |-> <<0, 0>>]]

\* s[from .. to-1]
Slice(s, from, to) == [i \in 1..(to - from) |-> s[from + i - 1]]

\* The length of the longest run of characters of cls in s from position i.
Run(s, i, cls) ==
    CHOOSE n \in 0..(Len(s) - i + 1) :
        /\ \A j \in i..(i + n - 1) : s[j] \in cls
        /\ i + n > Len(s) \/ s[i + n] \notin cls

\* Whether t occurs in s at position i.
StartsWith(s, i, t) ==
    /\ i + Len(t) - 1 <= Len(s)
    /\ \A j \in 1..Len(t) : s[i + j - 1] = t[j]

RECURSIVE Flatten(_)
Flatten(seqs) ==
    IF seqs = <<>> THEN <<>> ELSE Head(seqs) \o Flatten(Tail(seqs))

\* confs, each moved on by by(c) characters
Advance(confs, by(_)) ==
    [i \in 1..Len(confs) |-> [confs[i] EXCEPT !.pos = @ + by(confs[i])]]

\* The text a group captured.
GroupText(s, caps, g) == Slice(s, caps[g][1], caps[g][2])

\* From c, a greedy repeat that can take up to run characters: the longest
\* first, down to least.
Greedy(c, least, run) ==
    [i \in 1..(run - least + 1) |-> [c EXCEPT !.pos = @ + run - i + 1]]

AtMost(most, run) == IF most >= 0 /\ most < run THEN most ELSE run

\* confs with the group g opened, and closed, at the position of each
OpenGroup(confs, g) ==
    [i \in 1..Len(confs) |->
        [confs[i] EXCEPT !.caps[g] = <<confs[i].pos, confs[i].pos>>]]

CloseGroup(confs, g) ==
    [i \in 1..Len(confs) |-> [confs[i] EXCEPT !.caps[g][2] = confs[i].pos]]

(***************************************************************************)
(* Apply(item, s, confs): the configurations the matcher can be in after   *)
(* item, from each of confs, in the order a backtracking matcher tries     *)
(* them (a greedy repeat tries its longest run first).  The first          *)
(* configuration that gets through the whole pattern is the match the      *)
(* backtracking matcher returns.                                           *)
(***************************************************************************)
RECURSIVE Apply(_, _, _)
RECURSIVE ApplySeq(_, _, _, _)
ApplySeq(items, k, s, confs) ==
    IF k > Len(items) \/ confs = <<>> THEN confs
    ELSE ApplySeq(items, k + 1, s, Apply(items[k], s, confs))

Apply(item, s, confs) ==
    CASE item.op = "lit" ->
           Advance(SelectSeq(confs, LAMBDA c : StartsWith(s, c.pos, item.str)),
                   LAMBDA c : Len(item.str))
      [] item.op = "repeat" ->
           Flatten([i \in 1..Len(confs) |->
               Greedy(confs[i], item.least,
                      AtMost(item.most, Run(s, confs[i].pos, item.cls)))])
      [] item.op = "group" ->
           CloseGroup(ApplySeq(item.items, 1, s, OpenGroup(confs, item.g)),
                      item.g)
      [] item.op = "backref" ->
           Advance(SelectSeq(confs, LAMBDA c :
                       StartsWith(s, c.pos, GroupText(s, c.caps, item.g))),
                   LAMBDA c : Len(GroupText(s, c.caps, item.g)))

\* The captures of the first of confs, or <<>> for None.
FirstCaps(confs) == IF confs = <<>> THEN <<>> ELSE <<confs[1].caps>>

\* Pattern.fullmatch: the captures of the first match, or <<>> for None.
fullmatch(re, s) ==
    FirstCaps(SelectSeq(ApplySeq(re, 1, s, <<StartConf>>),
                        LAMBDA c : c.pos = Len(s) + 1))

----------------------------------------------------------------------------
(* ChangelogEntry.regex                                                    *)

time_re ==
    <<Rep(Alpha, 3), Plus(Space),
      Rep(Alpha, 3), Plus(Space),
      Plus(Digit), Plus(Space),
      Rep(Digit, 2), Lit(<<":">>), Rep(Digit, 2), Lit(<<":">>), Rep(Digit, 2),
      Lit(<<" ">>), Rep(Digit, 4)>>

\* l1 with a closing quote of either kind, not the opening one
l1_any_quote ==
    <<Group("time", time_re), Lit(<<":">>), Plus(Space),
      Group("action", <<Plus(Word)>>), Plus(Space),
      Lit(<<"u">>), Group("q", <<One({"'", "\""})>>),
      Group("target", <<Star(Dot)>>),
      One({"'", "\""})>>

\* l1 with a target that stops at the first quote character
l1_no_quote_in_target ==
    <<Group("time", time_re), Lit(<<":">>), Plus(Space),
      Group("action", <<Plus(Word)>>), Plus(Space),
      Lit(<<"u">>), Group("q", <<One({"'", "\""})>>),
      Group("target", <<Star(Dot \ {"'", "\""})>>),
      Backref("q")>>

l1 ==
    <<Group("time", time_re), Lit(<<":">>), Plus(Space),
      Group("action", <<Plus(Word)>>), Plus(Space),
      Lit(<<"u">>), Group("q", <<One({"'", "\""})>>),
      Group("target", <<Star(Dot)>>),
      Backref("q")>>

l2 ==
    <<Star(Space),
      Lit(<<"t","y","p","e",":">>), Group("type", <<Plus(Word)>>), Plus(Space),
      Lit(<<"m","o","d","e",":">>), Group("mode", <<Plus(Digit)>>), Plus(Space),
      Lit(<<"u","i","d",":">>), Group("uid", <<Plus(Digit)>>), Plus(Space),
      Lit(<<"g","i","d",":">>), Group("gid", <<Plus(Digit)>>), Plus(Space),
      Lit(<<"s","i","z","e",":">>), Group("size", <<Plus(Digit)>>)>>

l3 ==
    <<Star(Space),
      Lit(<<"m","t","i","m","e",":">>), Group("mtime", time_re), Plus(Space),
      Lit(<<"c","t","i","m","e",":">>), Group("ctime", time_re)>>

\* '\n'.join([l1, l2, l3])
final_re == l1 \o <<Lit(<<"\n">>)>> \o l2 \o <<Lit(<<"\n">>)>> \o l3

regex == final_re

----------------------------------------------------------------------------
(* Outcomes of a call: a returned value or a raised exception.             *)

Return(v) == [raised |-> FALSE, value |-> v]

Raise(e) == [raised |-> TRUE, exc |-> e]

\* An exception: its class and its args, the tuple of what it was raised with.
ParseError(msg) == [type |-> "ParseError", args |-> <<msg>>]

ValueError(msg) == [type |-> "ValueError", args |-> <<msg>>]

\* The messages of the exceptions, as the str values they are.
MatchedIncorrectly ==
    <<"S","p","i","d","e","r","O","a","k"," ","o","u","t","p","u","t"," ",
      "m","a","t","c","h","e","d"," ","i","n","c","o","r","r","e","c","t",
      "l","y",".">>

DoesNotMatchFormat ==
    <<"t","i","m","e"," ","d","a","t","a"," ","d","o","e","s"," ","n","o",
      "t"," ","m","a","t","c","h"," ","f","o","r","m","a","t">>

DayOutOfRange ==
    <<"d","a","y"," ","i","s"," ","o","u","t"," ","o","f"," ","r","a","n",
      "g","e"," ","f","o","r"," ","m","o","n","t","h">>

SecondOutOfRange ==
    <<"s","e","c","o","n","d"," ","m","u","s","t"," ","b","e"," ","i","n",
      " ","0",".",".","5","9">>

YearOutOfRange ==
    <<"y","e","a","r"," ","i","s"," ","o","u","t"," ","o","f"," ","r","a",
      "n","g","e">>

InvalidLiteral ==
    <<"i","n","v","a","l","i","d"," ","l","i","t","e","r","a","l"," ","f",
      "o","r"," ","i","n","t","(",")"," ","w","i","t","h"," ","b","a","s",
      "e"," ","1","0">>

TooManyArguments ==
    <<"t","o","o"," ","m","a","n","y"," ","a","r","g","u","m","e","n","t",
      "s"," ","t","o"," ","C","h","a","n","g","e","l","o","g","E","n","t",
      "r","y","(",")">>

----------------------------------------------------------------------------
(* The conversions of ChangelogEntry.__init__: int() and                   *)
(* datetime.strptime(v, TIME_FORMAT).                                      *)

\* The position of x in the sequence seq, 0 when it is not there.
IndexOf(seq, x) ==
    IF \E i \in DOMAIN seq : seq[i] = x
    THEN CHOOSE i \in DOMAIN seq : seq[i] = x
    ELSE 0

\* int() of a decimal string
RECURSIVE int(_)
int(s) ==
    IF s = <<>> THEN 0
    ELSE 10 * int(SubSeq(s, 1, Len(s) - 1)) + (IndexOf(Digits, s[Len(s)]) - 1)

\* str.lower, one character
LowerChar(c) == IF c \in Range(Upper) THEN Lower[IndexOf(Upper, c)] ELSE c

lower(s) == [i \in 1..Len(s) |-> LowerChar(s[i])]

\* %a and %b in the C locale, as strptime compares them (case-insensitively)
Weekdays == << <<"m","o","n">>, <<"t","u","e">>, <<"w","e","d">>,
               <<"t","h","u">>, <<"f","r","i">>, <<"s","a","t">>,
               <<"s","u","n">> >>

Months == << <<"j","a","n">>, <<"f","e","b">>, <<"m","a","r">>,
             <<"a","p","r">>, <<"m","a","y">>, <<"j","u","n">>,
             <<"j","u","l">>, <<"a","u","g">>, <<"s","e","p">>,
             <<"o","c","t">>, <<"n","o","v">>, <<"d","e","c">> >>

\* '%a %b %d %H:%M:%S %Y' as strptime compiles it: a blank of the format
\* stands for any run of whitespace, each directive for a group.
TIME_FORMAT ==
    <<Group("a", <<Plus(Word)>>), Plus(Space),
      Group("b", <<Plus(Word)>>), Plus(Space),
      Group("d", <<Plus(Digit)>>), Plus(Space),
      Group("H", <<Plus(Digit)>>), Lit(<<":">>),
      Group("M", <<Plus(Digit)>>), Lit(<<":">>),
      Group("S", <<Plus(Digit)>>), Plus(Space),
      Group("Y", <<Plus(Digit)>>)>>

IsLeap(y) == y % 4 = 0 /\ (y % 100 # 0 \/ y % 400 = 0)

DaysInMonth(y, m) ==
    IF m = 2 THEN (IF IsLeap(y) THEN 29 ELSE 28)
    ELSE IF m \in {4, 6, 9, 11} THEN 30 ELSE 31

\* datetime(year, month, day, hour, minute, second)
datetime(y, mo, d, h, mi, s) ==
    IF y < 1 THEN Raise(ValueError(YearOutOfRange))
    ELSE IF d < 1 \/ d > DaysInMonth(y, mo)
    THEN Raise(ValueError(DayOutOfRange))
    ELSE IF s > 59 THEN Raise(ValueError(SecondOutOfRange))
    ELSE Return([year |-> y, month |-> mo, day |-> d,
                 hour |-> h, minute |-> mi, second |-> s])

\* strptime, once the groups of the format are found: each directive
\* accepts its range, then the datetime is built.
strptime_groups(a, b, d, H, M, S, Y) ==
    IF /\ a \in Range(Weekdays)
       /\ b \in Range(Months)
       /\ Len(d) <= 2 /\ int(d) \in 1..31
       /\ Len(H) <= 2 /\ int(H) <= 23
       /\ Len(M) <= 2 /\ int(M) <= 59
       /\ Len(S) <= 2 /\ int(S) <= 61
       /\ Len(Y) = 4
    THEN datetime(int(Y), IndexOf(Months, b), int(d), int(H), int(M), int(S))
    ELSE Raise(ValueError(DoesNotMatchFormat))

strptime_found(v, found) ==
    IF found = <<>>
    THEN Raise(ValueError(DoesNotMatchFormat))
    ELSE strptime_groups(lower(GroupText(v, found[1], "a")),
                         lower(GroupText(v, found[1], "b")),
                         GroupText(v, found[1], "d"),
                         GroupText(v, found[1], "H"),
                         GroupText(v, found[1], "M"),
                         GroupText(v, found[1], "S"),
                         GroupText(v, found[1], "Y"))

\* datetime.strptime(v, TIME_FORMAT)
strptime(v) == strptime_found(v, fullmatch(TIME_FORMAT, v))

\* ChangelogEntry._set_datetime: every value parse hands over is a str.
set_datetime(kwargs, key) == strptime(kwargs[key])

Fields == {"time", "action", "target", "type", "mode", "uid", "gid", "size",
           "mtime", "ctime"}

\* The body of ChangelogEntry.__init__, given what the three calls of
\* _set_datetime do: the conversions in the order of the code; the first
\* that fails raises.
init(kwargs, time, mtime, ctime) ==
    IF time.raised THEN time
    ELSE IF \E f \in {"mode", "uid", "gid", "size"} :
                kwargs[f] = <<>> \/ Range(kwargs[f]) \ Digit # {}
    THEN Raise(ValueError(InvalidLiteral))
    ELSE IF mtime.raised THEN mtime
    ELSE IF ctime.raised THEN ctime
    ELSE IF DOMAIN kwargs \ Fields # {}
    THEN Raise(ValueError(TooManyArguments))
    ELSE Return([time   |-> time.value,
                 action |-> kwargs["action"],
                 target |-> kwargs["target"],
                 type   |-> kwargs["type"],
                 mode   |-> int(kwargs["mode"]),
                 uid    |-> int(kwargs["uid"]),
                 gid    |-> int(kwargs["gid"]),
                 size   |-> int(kwargs["size"]),
                 mtime  |-> mtime.value,
                 ctime  |-> ctime.value])

\* ChangelogEntry(**kwargs)
ChangelogEntry(kwargs) ==
    init(kwargs, set_datetime(kwargs, "time"), set_datetime(kwargs, "mtime"),
         set_datetime(kwargs, "ctime"))

\* sep.join(strs) for a one-character separator
RECURSIVE join(_, _)
join(sep, strs) ==
    IF strs = <<>> THEN <<>>
    ELSE IF Len(strs) = 1 THEN strs[1]
    ELSE strs[1] \o <<sep>> \o join(sep, Tail(strs))

\* match.groupdict() without its 'q'
capture(string, caps) == [g \in Fields |-> GroupText(string, caps, g)]

\* ChangelogEntry.parse, from the match on
parse_match(string, match) ==
    IF match = <<>>
    THEN Raise(ParseError(MatchedIncorrectly))
    ELSE ChangelogEntry(capture(string, match[1]))

parse_string(string) == parse_match(string, fullmatch(regex, string))

\* ChangelogEntry.parse(triplet)
parse(triplet) == parse_string(join("\n", triplet))

----------------------------------------------------------------------------
(* The changelog text, as SpiderOak prints it (the examples in the         *)
(* comments of ChangelogEntry.regex).                                      *)

\* str() of a natural number
RECURSIVE Decimal(_)
Decimal(n) ==
    IF n < 10 THEN <<Digits[n + 1]>>
    ELSE Decimal(n \div 10) \o <<Digits[(n % 10) + 1]>>

\* str.zfill
Zfill(s, width) == [i \in 1..(width - Len(s)) |-> "0"] \o s

Capitalize(s) == <<Upper[IndexOf(Lower, s[1])]>> \o Tail(s)

\* The day of the week of a date, 1 = Monday .. 7 = Sunday.
DayOfWeek(y, shift, d) ==
    1 + ((y + (y \div 4) - (y \div 100) + (y \div 400) + shift + d + 6) % 7)

Weekday(dt) ==
    DayOfWeek(IF dt.month < 3 THEN dt.year - 1 ELSE dt.year,
              <<0, 3, 2, 5, 0, 3, 5, 1, 4, 6, 2, 4>>[dt.month], dt.day)

\* A time in the layout of TIME_FORMAT.  daypad is what precedes a one-digit
\* day of the month: nothing, a blank (ctime's layout) or a zero (%d's).
strftime(dt, daypad, month) ==
    Capitalize(Weekdays[Weekday(dt)]) \o <<" ">> \o month \o <<" ">>
      \o (IF dt.day < 10 THEN daypad ELSE <<>>) \o Decimal(dt.day) \o <<" ">>
      \o Zfill(Decimal(dt.hour), 2) \o <<":">>
      \o Zfill(Decimal(dt.minute), 2) \o <<":">>
      \o Zfill(Decimal(dt.second), 2) \o <<" ">>
      \o Zfill(Decimal(dt.year), 4)

MonthName(dt) == Capitalize(Months[dt.month])

OtherQuote(q) == IF q = "'" THEN "\"" ELSE "'"

(***************************************************************************)
(* The three lines of one change w of the journal: w.entry holds the field *)
(* values, w.q the quote character SpiderOak chose, w.daypad the day       *)
(* padding and w.defect what is wrong with the text: "none", "quote" (the  *)
(* closing quote is the other quote character), "month" (the month of the  *)
(* time is no month), "nosize" (line 2 lacks the size), "trail" (text      *)
(* follows the ctime).                                                     *)
(***************************************************************************)
Lines(e, w) ==
    << strftime(e.time, w.daypad,
                IF w.defect = "month" THEN <<"F","o","o">> ELSE MonthName(e.time))
         \o <<":", " ">> \o e.action \o <<" ", "u", w.q>> \o e.target
         \o <<IF w.defect = "quote" THEN OtherQuote(w.q) ELSE w.q>>,
       <<" ", " ", "t","y","p","e",":">> \o e.type
         \o <<" ", "m","o","d","e",":">> \o Decimal(e.mode)
         \o <<" ", "u","i","d",":">> \o Decimal(e.uid)
         \o <<" ", "g","i","d",":">> \o Decimal(e.gid)
         \o (IF w.defect = "nosize" THEN <<>>
             ELSE <<" ", "s","i","z","e",":">> \o Decimal(e.size)),
       <<" ", " ", "m","t","i","m","e",":">>
         \o strftime(e.mtime, w.daypad, MonthName(e.mtime))
         \o <<" ", "c","t","i","m","e",":">>
         \o strftime(e.ctime, w.daypad, MonthName(e.ctime))
         \o (IF w.defect = "trail" THEN <<" ", "x">> ELSE <<>>) >>

Triplet(w) == Lines(w.entry, w)

\* check_output(['SpiderOak', '--journal-changelog', folder]): the triplets
\* of the journal and the tail, a newline between the lines.
check_output(changes, trailing) ==
    join("\n", Flatten([i \in 1..Len(changes) |-> Triplet(changes[i])])
                  \o trailing)

----------------------------------------------------------------------------
(* journal_changelog                                                       *)

\* The positions of the character c in s.
Positions(s, c) == {i \in 1..Len(s) : s[i] = c}

\* The k-th of the positions at, 0 before the first, past the end of s after
\* the last.
Nth(s, at, k) ==
    IF k = 0 THEN 0
    ELSE IF k > Cardinality(at) THEN Len(s) + 1
    ELSE CHOOSE p \in at : Cardinality({r \in at : r < p}) = k - 1

split_at(s, at) ==
    [k \in 1..(Cardinality(at) + 1) |->
        Slice(s, Nth(s, at, k - 1) + 1, Nth(s, at, k))]

\* str.split(sep) for a one-character separator
split(s, sep) == split_at(s, Positions(s, sep))

\* l[i::n], i counted from 0
stride(l, i, n) ==
    [j \in 1..(IF Len(l) > i THEN (Len(l) - i + n - 1) \div n ELSE 0) |->
        l[i + 1 + (j - 1) * n]]

\* zip(*cols): as long as the shortest column
zip(cols) ==
    [j \in 1..Least({Len(cols[c]) : c \in DOMAIN cols}) |->
        [c \in DOMAIN cols |-> cols[c][j]]]

\* n_tuples that keeps the remainder, its missing items empty (zip_longest)
n_tuples_longest(l, n) ==
    [j \in 1..((Len(l) + n - 1) \div n) |->
        [c \in 1..n |-> IF (j - 1) * n + c <= Len(l)
                        THEN l[(j - 1) * n + c] ELSE <<>>]]

n_tuples(l, n) == zip([i \in 1..n |-> stride(l, i - 1, n)])

\* A comprehension that leaves out the items that raise
comprehension_skipping(parsed) ==
    Return([k \in 1..Cardinality({i \in DOMAIN parsed : ~parsed[i].raised}) |->
        parsed[Nth(parsed, {i \in DOMAIN parsed : ~parsed[i].raised}, k)].value])

\* A list comprehension whose items evaluate to parsed: the first that
\* raises ends it.
comprehension(parsed) ==
    IF \E i \in DOMAIN parsed : parsed[i].raised
    THEN Raise(parsed[Least({i \in DOMAIN parsed : parsed[i].raised})].exc)
    ELSE Return([i \in DOMAIN parsed |-> parsed[i].value])

\* [ChangelogEntry.parse(t) for t in tuples]
parse_all(tuples) == comprehension([i \in DOMAIN tuples |-> parse(tuples[i])])

\* journal_changelog, from the output of SpiderOak on
journal_changelog(text) == parse_all(n_tuples(split(text, "\n"), 3))

----------------------------------------------------------------------------
(* file_changelog and last_nonzero                                         *)

\* os.getcwd()
getcwd == <<"/", "h">>

isabs(path) == path # <<>> /\ path[1] = "/"

\* os.path.join(a, b)
path_join(a, b) ==
    IF isabs(b) THEN b
    ELSE IF a = <<>> \/ a[Len(a)] = "/" THEN a \o b
    ELSE a \o <<"/">> \o b

\* The loop of os.path.normpath over the components of a path.
RECURSIVE new_comps(_, _, _)
new_comps(comps, k, acc) ==
    IF k > Len(comps) THEN acc
    ELSE LET comp == comps[k] IN
         IF comp = <<>> \/ comp = <<".">> THEN new_comps(comps, k + 1, acc)
         ELSE IF comp # <<".", ".">> \/ (acc # <<>> /\ acc[Len(acc)] = <<".", ".">>)
         THEN new_comps(comps, k + 1, Append(acc, comp))
         ELSE new_comps(comps, k + 1, SubSeq(acc, 1, Len(acc) - 1))

RECURSIVE join_path(_)
join_path(comps) ==
    IF comps = <<>> THEN <<>> ELSE <<"/">> \o Head(comps) \o join_path(Tail(comps))

\* os.path.normpath of an absolute path
rooted(comps) == IF comps = <<>> THEN <<"/">> ELSE join_path(comps)

normpath(path) == rooted(new_comps(split(path, "/"), 1, <<>>))

\* os.path.abspath
abspath(path) ==
    normpath(IF isabs(path) THEN path ELSE path_join(getcwd, path))

\* str.rfind(c) + 1
after_last(p, c) ==
    IF Positions(p, c) = {} THEN 0 ELSE Greatest(Positions(p, c))

\* os.path.basename
basename(p) == Slice(p, after_last(p, "/") + 1, Len(p) + 1)

\* str.rstrip(c)
rstrip(s, c) ==
    Slice(s, 1, 1 + (CHOOSE i \in 0..Len(s) :
                        /\ i = 0 \/ s[i] # c
                        /\ \A j \in (i + 1)..Len(s) : s[j] = c))

dirname_head(head) ==
    IF head # <<>> /\ Range(head) # {"/"} THEN rstrip(head, "/") ELSE head

\* os.path.dirname
dirname(p) == dirname_head(Slice(p, 1, after_last(p, "/") + 1))

\* The filter with str.startswith for ==
target_filter_prefix(l, nm) ==
    SelectSeq(l, LAMBDA e : StartsWith(e.target, 1, nm))

\* [l for l in log if l.target == name]
target_filter(l, nm) == SelectSeq(l, LAMBDA e : e.target = nm)

\* last_nonzero without the reversed()
last_nonzero_forward(changelog) ==
    IF \A i \in DOMAIN changelog : changelog[i].size = 0 THEN <<>>
    ELSE <<changelog[Least({i \in DOMAIN changelog : changelog[i].size # 0})]>>

\* last_nonzero that falls back on the last entry
last_nonzero_or_last(changelog) ==
    IF changelog = <<>> THEN <<>>
    ELSE IF \A i \in DOMAIN changelog : changelog[i].size = 0
    THEN <<changelog[Len(changelog)]>>
    ELSE <<changelog[Greatest({i \in DOMAIN changelog : changelog[i].size # 0})]>>

\* main.last_nonzero, on the changelog file_changelog returned: the first
\* entry of reversed(changelog) with size != 0, or <<>> for None.
last_nonzero(changelog) ==
    IF \A i \in DOMAIN changelog : changelog[i].size = 0 THEN <<>>
    ELSE <<changelog[Greatest({i \in DOMAIN changelog : changelog[i].size # 0})]>>

----------------------------------------------------------------------------
(* The inputs: journals, tails and file names.                             *)

\* The longest journal of well-formed changes.
MaxHistory == 3

\* The longest journal that mixes well-formed and malformed changes.
MaxMixed == 2

a_txt == <<"a", ".", "t", "x", "t">>

a_txt_bak == a_txt \o <<".", "b", "a", "k">>

A_txt == <<"A", ".", "t", "x", "t">>

add == <<"a", "d", "d">>

update == <<"u", "p", "d", "a", "t", "e", "_", "2">>

file == <<"f", "i", "l", "e">>

dir == <<"d", "i", "r">>

Date(y, mo, d, h, mi, s) ==
    [year |-> y, month |-> mo, day |-> d, hour |-> h, minute |-> mi, second |-> s]

Jun1 == Date(2015, 6, 1, 12, 34, 56)

Dec31 == Date(2014, 12, 31, 23, 59, 0)

Feb29 == Date(2016, 2, 29, 0, 0, 59)

\* No date: 2015 is no leap year.
Feb30 == Date(2015, 2, 30, 12, 0, 0)

Change(time, target, size, defect) ==
    [entry  |-> [time |-> time, action |-> add, target |-> target,
                 type |-> file, mode |-> 420, uid |-> 0, gid |-> 0,
                 size |-> size, mtime |-> Jun1, ctime |-> Dec31],
     q      |-> "'",
     daypad |-> <<>>,
     defect |-> defect]

\* The history of a.txt, of a.txt.bak and of A.txt: the changes of a.txt are
\* not in the order of their times.
HistoryPool ==
    { Change(Feb29, a_txt, 100, "none"),
      Change(Jun1, a_txt, 0, "none"),
      Change(Dec31, a_txt, 50, "none"),
      Change(Jun1, a_txt_bak, 7, "none"),
      Change(Jun1, A_txt, 8, "none") }

MixedPool ==
    { Change(Feb29, a_txt, 100, "none"),
      Change(Jun1, a_txt_bak, 7, "none"),
      Change(Jun1, a_txt_bak, 7, "quote"),
      Change(Jun1, a_txt, 50, "nosize"),
      Change(Jun1, a_txt_bak, 7, "month"),
      Change(Feb30, a_txt_bak, 7, "none") }

\* One change, its fields drawn independently.
SinglePool ==
    { [entry  |-> [time |-> st[1], action |-> ac, target |-> tg,
                   type |-> ty, mode |-> ids[1], uid |-> ids[2], gid |-> ids[3],
                   size |-> sz, mtime |-> st[2], ctime |-> st[3]],
       q      |-> q,
       daypad |-> st[4],
       defect |-> df] :
        st  \in { <<Jun1, Dec31, Feb29, <<>> >>,
                  <<Dec31, Feb29, Feb29, <<" ">> >>,
                  <<Feb29, Jun1, Dec31, <<"0">> >> },
        ac  \in {add, update},
        tg  \in { a_txt, <<"a", "'", "b">>, <<"a", "\"", "b">>,
                  <<"a", " ", "é", "-", "'">> },
        ty  \in {file, dir},
        ids \in { <<420, 0, 0>>, <<33188, 1000, 1001>> },
        sz  \in {0, 4096},
        q   \in {"'", "\""},
        df  \in {"none", "quote", "trail"} }

SeqsUpTo(S, n) == UNION {[1..k -> S] : k \in 0..n}

\* What follows the last complete triplet: fewer than three lines.
TailsOf(t) ==
    { <<>>,
      << <<>> >>,
      << <<"x">> >>,
      << <<>>, <<>> >>,
      << t[1] >>,
      << t[1], t[2] >> }

Tails == TailsOf(Triplet(Change(Jun1, a_txt, 9, "none")))

Filenames ==
    { a_txt,
      <<"d", "/">> \o a_txt_bak,
      <<".", "/", "d", "/", ".", ".", "/", "n">> }

Inputs ==
    {[journal |-> j, tail |-> <<>>, filename |-> f] :
        j \in SeqsUpTo(HistoryPool, MaxHistory), f \in Filenames}
    \cup
    {[journal |-> j, tail |-> t, filename |-> f] :
        j \in SeqsUpTo(MixedPool, MaxMixed), t \in Tails, f \in Filenames}
    \cup
    {[journal |-> <<w>>, tail |-> <<>>, filename |-> w.entry.target] :
        w \in SinglePool}

----------------------------------------------------------------------------
(* The call last_nonzero(filename).                                        *)

Init ==
    /\ \E inp \in Inputs :
          /\ journal = inp.journal
          /\ tail = inp.tail
          /\ filename = inp.filename
    /\ output = check_output(journal, tail)
    /\ pc = "file_changelog"
    /\ directory = <<>>
    /\ name = <<>>
    /\ entries = <<>>
    /\ log = <<>>
    /\ result = <<>>
    /\ exc = <<>>

\* file_changelog, up to its call of journal_changelog
FileChangelogCall ==
    /\ pc = "file_changelog"
    /\ directory' = dirname(abspath(filename))
    /\ name' = basename(abspath(filename))
    /\ pc' = "journal_changelog"
    /\ UNCHANGED <<journal, tail, filename, output, entries, log, result, exc>>

\* journal_changelog(directory): it returns the entries, or the exception of
\* parse leaves it, file_changelog and last_nonzero, none of which catches it.
Outcome(r) ==
    IF r.raised
    THEN /\ exc' = <<r.exc>>
         /\ pc' = "raised"
         /\ UNCHANGED entries
    ELSE /\ entries' = r.value
         /\ pc' = "filter"
         /\ UNCHANGED exc

JournalChangelog ==
    /\ pc = "journal_changelog"
    /\ Outcome(journal_changelog(output))
    /\ UNCHANGED <<journal, tail, filename, output, directory, name, log, result>>

\* file_changelog, from the return of journal_changelog to its own
FileChangelogReturn ==
    /\ pc = "filter"
    /\ log' = target_filter(entries, name)
    /\ pc' = "last_nonzero"
    /\ UNCHANGED <<journal, tail, filename, output, directory, name, entries,
                   result, exc>>

\* last_nonzero, from the return of file_changelog to its own
LastNonzero ==
    /\ pc = "last_nonzero"
    /\ result' = last_nonzero(log)
    /\ pc' = "done"
    /\ UNCHANGED <<journal, tail, filename, output, directory, name, entries,
                   log, exc>>

Next ==
    \/ FileChangelogCall
    \/ JournalChangelog
    \/ FileChangelogReturn
    \/ LastNonzero

Spec == Init /\ [][Next]_vars

----------------------------------------------------------------------------
(* What the journal says, to compare the program's answers with.           *)

IsDate(dt) ==
    /\ dt.year \in 1..9999
    /\ dt.month \in 1..12
    /\ dt.day \in 1..DaysInMonth(dt.year, dt.month)
    /\ dt.hour \in 0..23 /\ dt.minute \in 0..59 /\ dt.second \in 0..59

\* The text of w conforms to the three-line grammar.
Syntactic(w) == w.defect \in {"none", "month"}

\* The text of w conforms and its fields are values of their types.
WellFormed(w) ==
    /\ w.defect = "none"
    /\ IsDate(w.entry.time) /\ IsDate(w.entry.mtime) /\ IsDate(w.entry.ctime)

Malformed == {i \in DOMAIN journal : ~WellFormed(journal[i])}

\* journal_changelog has returned.
Returned == pc \in {"filter", "last_nonzero", "done"}

\* journal_changelog has returned or raised.
Parsed == Returned \/ pc = "raised"

\* The changes of the journal that are about the file asked for.
About(i) == journal[i].entry.target = name

Days(dt) == (dt.year * 12 + dt.month) * 31 + dt.day

SecondOfDay(dt) == (dt.hour * 60 + dt.minute) * 60 + dt.second

\* The time a is later than the time b.
Later(a, b) ==
    \/ Days(a) > Days(b)
    \/ Days(a) = Days(b) /\ SecondOfDay(a) > SecondOfDay(b)

IsProperPrefix(a, b) == Len(a) < Len(b) /\ StartsWith(b, 1, a)

Contains(a, t) == \E i \in 1..(Len(a) + 1) : StartsWith(a, i, t)

----------------------------------------------------------------------------
(* The claims.                                                             *)

\* C1: when the journal holds a change of the file with size != 0, the call
\* returns the one at the greatest position among them, whatever the times
\* of the changes say; the changes of the file after it all have size 0.
C1_LastNonzeroByPosition ==
    pc = "done" =>
        \A i \in DOMAIN journal :
            (/\ About(i) /\ journal[i].entry.size # 0
             /\ \A j \in DOMAIN journal :
                    (j > i /\ About(j)) => journal[j].entry.size = 0)
            => result = <<journal[i].entry>>

\* C1's case: the change returned is followed by a change of the file of size
\* 0 and preceded by one of size != 0 with a later time.
C1_Witness ==
    /\ pc = "done"
    /\ \E i, j, k \in DOMAIN journal :
          /\ i < j /\ j < k
          /\ About(i) /\ About(j) /\ About(k)
          /\ journal[i].entry.size # 0
          /\ journal[j].entry.size # 0
          /\ journal[k].entry.size = 0
          /\ Later(journal[i].entry.time, journal[j].entry.time)
          /\ result = <<journal[j].entry>>

\* C2: when the journal parses and holds no change of the file with size != 0,
\* the call returns None; once the journal is parsed no exception is raised,
\* and the call returns None or an entry of the file with size != 0.
C2_AbsentIsNone ==
    /\ Returned => exc = <<>>
    /\ pc = "done" =>
          /\ (\A i \in DOMAIN journal : About(i) => journal[i].entry.size = 0)
                => result = <<>>
          /\ \/ result = <<>>
             \/ /\ Len(result) = 1
                /\ result[1].size # 0
                /\ result[1].target = name

\* C2's case: every change of the file has size 0, and there are several.
C2_Witness ==
    /\ pc = "done"
    /\ result = <<>>
    /\ Len(log) >= 2
    /\ \A i \in DOMAIN log : log[i].size = 0

\* C3: the log file_changelog returns is the subsequence of the entries whose
\* target is the name, as a whole string: the k-th entry of the log is the
\* k-th of the entries with that target.
C3_FilterIsExactSubsequence ==
    pc \in {"last_nonzero", "done"} =>
        /\ Len(log) = Cardinality({i \in DOMAIN entries : entries[i].target = name})
        /\ \A k \in DOMAIN log :
              log[k] = entries[Nth(entries,
                          {i \in DOMAIN entries : entries[i].target = name}, k)]

\* C3's case: among the entries are one of the name, one whose target has the
\* name as a proper prefix and one that differs from the name by case only.
C3_Witness ==
    /\ pc = "last_nonzero"
    /\ log # <<>>
    /\ \E i \in DOMAIN entries : IsProperPrefix(name, entries[i].target)
    /\ \E i \in DOMAIN entries :
          entries[i].target # name /\ lower(entries[i].target) = lower(name)

\* C4: when the k triplets of the journal are well-formed, journal_changelog
\* does not raise and returns k entries, the i-th the parse of the i-th
\* triplet, whatever the fewer than three lines after them are.
C4_TripletGrouping ==
    (\A i \in DOMAIN journal : WellFormed(journal[i])) =>
        /\ pc # "raised"
        /\ Returned =>
              /\ Len(entries) = Len(journal)
              /\ \A i \in DOMAIN journal :
                    entries[i] = parse(Triplet(journal[i])).value

\* C4's case: two triplets and, after them, the first two lines of a third.
C4_Witness ==
    /\ Returned
    /\ Len(journal) = 2
    /\ Len(tail) = 2
    /\ tail[1] # <<>>
    /\ Len(entries) = 2

\* C5: when a complete triplet of the journal is malformed, journal_changelog
\* raises a ParseError and returns no entries.
C5_MalformedRaisesParseError ==
    (Malformed # {} /\ Parsed) =>
        /\ pc = "raised"
        /\ entries = <<>>
        /\ exc # <<>>
        /\ exc[1].type = "ParseError"

\* C6: when the first malformed triplet conforms to the grammar and a field
\* of it cannot be converted, the exception raised is a ParseError.
C6_ConversionFailureIsParseError ==
    (/\ Malformed # {}
     /\ Syntactic(journal[Least(Malformed)])
     /\ pc = "raised")
    => exc[1].type = "ParseError"

\* C7: a ParseError that parse raises carries the text of the triplet that
\* did not conform.
C7_ParseErrorCarriesTriplet ==
    (pc = "raised" /\ exc[1].type = "ParseError") =>
        \E a \in Range(exc[1].args) :
            Contains(a, join("\n", Triplet(journal[Least(Malformed)])))

\* C8: a triplet whose target name is closed with the other quote character
\* than it was opened with, or that is followed by more text, is rejected
\* with a ParseError.
C8_QuoteMismatchRejected ==
    (/\ Malformed # {}
     /\ journal[Least(Malformed)].defect \in {"quote", "trail"}
     /\ Parsed)
    => /\ pc = "raised"
       /\ exc[1].type = "ParseError"

\* C8's case: the name itself holds the closing quote character.
C8_Witness ==
    /\ pc = "raised"
    /\ journal[1].defect = "quote"
    /\ OtherQuote(journal[1].q) \in Range(journal[1].entry.target)

\* C9: a well-formed triplet parses, and the entry has the field values the
\* triplet was written from.
C9_RoundTrip ==
    (Parsed /\ \A j \in DOMAIN journal : WellFormed(journal[j])) =>
        /\ Returned
        /\ \A i \in DOMAIN journal :
              /\ i \in DOMAIN entries
              /\ entries[i] = journal[i].entry
              /\ entries[i].size \in Nat

\* C9's case: a name with a blank, a letter outside ASCII and the other quote
\* character, size 0, three different times.
C9_Witness ==
    /\ Returned
    /\ Len(entries) = 1
    /\ entries[1].target = <<"a", " ", "é", "-", "'">>
    /\ journal[1].q = "\""
    /\ entries[1].size = 0
    /\ entries[1].time # entries[1].mtime
    /\ entries[1].mtime # entries[1].ctime

\* C10: when a triplet of the journal is malformed, the call for any file
\* ends with the exception: it returns neither an entry nor None.
C10_ParsedBeforeFiltered ==
    Malformed # {} =>
        /\ ~Returned
        /\ result = <<>>
        /\ pc = "raised" => exc # <<>>

\* C10's case: the malformed triplet is of another file, and the triplets of
\* the file asked for are well-formed, one of them with size != 0.
C10_Witness ==
    /\ pc = "raised"
    /\ \E i \in Malformed : ~About(i)
    /\ \A i \in Malformed : ~About(i)
    /\ \E i \in DOMAIN journal : About(i) /\ journal[i].entry.size # 0

====
